---- MODULE Spec2Model ----
(***************************************************************************)
(* Model of src/caesar_shift/pypher.py: the substitution-cipher decryptor  *)
(* (decrypt, QuadgramScorer.score, hill_climb, solve_substitution) and the *)
(* hash-keyed result cache of main.                                        *)
(*                                                                         *)
(* Texts are sequences of one-character tokens.  Scores are fixed-point    *)
(* numbers in thousandths (math.log10 rounded to three decimals).          *)
(***************************************************************************)
EXTENDS Integers, Sequences, FiniteSets, TLC

\* ------------------------------------------------------------------ bounds
\* Number of letters of A-Z the model keeps (the code's alphabet has 26).
AlphaLen == 3
\* Largest `restarts` argument of solve_substitution that is explored.
MaxRestarts == 2
\* Largest `max_iter` explored for a single hill_climb run.
MaxIterations == 3
\* Largest `iterations` explored when solve_substitution restarts.
MaxSolveIterations == 1
\* The arguments main passes (restarts=20, iterations=1000), scaled down.
MainRestarts == 1
MainIterations == 1
\* Number of times the program is started.
MaxRequests == 2
\* Letters in the key mappings decrypt is applied with, and the longest
\* text it is applied to.
DecryptAlphaLen == 2
MaxDecryptLen == 2
\* Longest text score is applied to.
MaxScoreLen == 4

\* ------------------------------------------------------------- characters
FullAlphabet ==
  << "A","B","C","D","E","F","G","H","I","J","K","L","M",
     "N","O","P","Q","R","S","T","U","V","W","X","Y","Z" >>

LowerAlphabet ==
  << "a","b","c","d","e","f","g","h","i","j","k","l","m",
     "n","o","p","q","r","s","t","u","v","w","x","y","z" >>

\* The order in which letters are admitted to the bounded alphabet: the
\* letters of the built-in quadgram table first.
LetterPool == << "T","H","A","I","O","N","E","R","D","M" >>

Range(s) == { s[i] : i \in DOMAIN s }

\* alphabet = "ABCDEFGHIJKLMNOPQRSTUVWXYZ", cut down to AlphaLen letters.
alphabet ==
  SelectSeq(FullAlphabet,
            LAMBDA c : \E i \in 1..AlphaLen : LetterPool[i] = c)

\* U+0131 (dotless i), U+017F (long s) and U+00DF (sharp s) are the
\* characters outside a-z whose str.upper() reaches A-Z.
DotlessI == "dotless_i"
LongS == "long_s"
SharpS == "sharp_s"

\* The case pairs a-z / A-Z as lookup tables.
UpperOf ==
  [ c \in Range(LowerAlphabet) |->
      FullAlphabet[CHOOSE i \in 1..26 : LowerAlphabet[i] = c] ]

LowerOf ==
  [ c \in Range(FullAlphabet) |->
      LowerAlphabet[CHOOSE i \in 1..26 : FullAlphabet[i] = c] ]

\* str.upper() of one character: a string of one or two characters.
upper(char) ==
  IF char \in DOMAIN UpperOf THEN << UpperOf[char] >>
  ELSE IF char = DotlessI THEN << "I" >>
  ELSE IF char = LongS THEN << "S" >>
  ELSE IF char = SharpS THEN << "S", "S" >>
  ELSE << char >>

\* str.isupper() of one character.
isupper(char) == char \in DOMAIN LowerOf

\* str.lower() of one character.
lower(char) == IF char \in DOMAIN LowerOf THEN LowerOf[char] ELSE char

\* str.upper() of a whole string.
RECURSIVE upper_str(_)
upper_str(text) ==
  IF text = << >> THEN << >>
  ELSE upper(Head(text)) \o upper_str(Tail(text))

\* ------------------------------------------------------------------- keys
\* {key[i]: alphabet[i] for i in range(26)}: a later duplicate key wins.
Mapping(key) ==
  [ c \in Range(key) |->
      alphabet[CHOOSE i \in DOMAIN key :
                 key[i] = c /\ \A j \in DOMAIN key : key[j] = c => j <= i] ]

\* decrypt(ciphertext, key_mapping)
decrypt(ciphertext, key_mapping) ==
  [ i \in 1..Len(ciphertext) |->
      LET char == ciphertext[i]
          up == upper(char)
      IN IF Len(up) = 1 /\ up[1] \in DOMAIN key_mapping
           THEN IF isupper(char) THEN key_mapping[up[1]]
                ELSE lower(key_mapping[up[1]])
           ELSE char ]

\* ----------------------------------------------------------------- scorer
\* The built-in table of QuadgramScorer.__init__ (no quadgrams.txt).
quadgrams ==
  ( <<"T","H","E","N">> :> 10 @@ <<"T","H","E","R">> :> 9 @@
    <<"T","I","O","N">> :> 8  @@ <<"H","E","R","E">> :> 7 @@
    <<"T","H","A","T">> :> 7  @@ <<"A","T","I","O">> :> 6 @@
    <<"N","D","T","H">> :> 5  @@ <<"T","H","E","M">> :> 5 )

RECURSIVE SumOver(_, _)
SumOver(f, S) ==
  IF S = {} THEN 0
  ELSE LET x == CHOOSE y \in S : TRUE IN f[x] + SumOver(f, S \ {x})

\* self.total = sum(self.quadgrams.values())
total == SumOver(quadgrams, DOMAIN quadgrams)

\* 1000 * math.log10(n), rounded, for the integers the table needs.
Log10Milli ==
  ( 5 :> 699 @@ 6 :> 778 @@ 7 :> 845 @@ 8 :> 903 @@ 9 :> 954 @@
    10 :> 1000 @@ 57 :> 1756 )

\* self.log_prob[key] = math.log10(float(self.quadgrams[key]) / self.total)
log_prob ==
  [ q \in DOMAIN quadgrams |-> Log10Milli[quadgrams[q]] - Log10Milli[total] ]

\* self.floor = math.log10(0.01 / self.total)
floor == (0 - 2000) - Log10Milli[total]

\* ScoreText with the spaces left in.
ScoreText_KeepSpaces(text) == upper_str(text)

\* text.upper().replace(" ", "")
ScoreText(text) == SelectSeq(upper_str(text), LAMBDA c : c # " ")

\* Windows with the loop bound off by one: range(len(text) - 2).
Windows_OffByOne(text) ==
  LET t == ScoreText(text)
  IN [ i \in 1..(IF Len(t) > 2 THEN Len(t) - 2 ELSE 0) |->
         SubSeq(t, i, IF i + 3 <= Len(t) THEN i + 3 ELSE Len(t)) ]

\* The windows text[i:i+4] for i in range(len(text) - 3).
Windows(text) ==
  LET t == ScoreText(text)
  IN [ i \in 1..(IF Len(t) > 3 THEN Len(t) - 3 ELSE 0) |-> SubSeq(t, i, i + 3) ]

RECURSIVE SumSeq(_)
SumSeq(s) == IF s = << >> THEN 0 ELSE Head(s) + SumSeq(Tail(s))

\* QuadgramScorer.score(text)
score_of(text) ==
  LET w == Windows(text)
  IN SumSeq([ i \in DOMAIN w |->
                IF w[i] \in DOMAIN log_prob THEN log_prob[w[i]] ELSE floor ])


\* ------------------------------------------------------------------ state
VARIABLES
  \* arguments of solve_substitution / hill_climb
  ciphertext, restarts, iterations,
  \* position in solve_substitution and hill_climb
  pc, run, iter,
  \* locals of hill_climb
  best_key, best_score, current_key, current_score, new_key, new_score,
  \* locals of solve_substitution
  decryption, mapping, score,
  best_overall_decryption, best_overall_mapping, best_overall_score,
  \* history of the current hill_climb run and of the finished runs
  initial_key, initial_score, accepted, max_seen, first_with_score,
  \* the directory main runs in: the input files and decryption_cache.json
  files, cache_file,
  \* the running process of main and its locals
  main_pc, input_file, file_hash, cache, decrypted_text, hit,
  \* the processes started so far, the outcome of the last one, and the
  \* first result computed for each input
  requests, last, first_result,
  \* decrypt and score applied on their own: arguments, results, position
  arg_text, other_text, arg_mapping, enc, dec,
  text_score, text_windows, other_score, other_windows, fn_pc

hillVars == << best_key, best_score, current_key, current_score,
               new_key, new_score >>
solveVars == << decryption, mapping, score, best_overall_decryption,
                best_overall_mapping, best_overall_score >>
histVars == << initial_key, initial_score, accepted, max_seen,
               first_with_score >>
argVars == << ciphertext, restarts, iterations >>
solverVars == << argVars, pc, run, iter, hillVars, solveVars, histVars >>
mainVars == << files, cache_file, main_pc, input_file, file_hash, cache,
               decrypted_text, hit, requests, last, first_result >>
fnVars == << arg_text, other_text, arg_mapping, enc, dec,
            text_score, text_windows, other_score, other_windows, fn_pc >>
vars == << solverVars, mainVars, fnVars >>

\* A name not yet bound (a key or a text), and Python's None.
NoKey == << >>
None == << "None" >>
\* -float('inf'): below every score a text of the model can get.
NegInf == -1000000

\* random.shuffle(list(alphabet)): every permutation of the alphabet.
Perms ==
  { p \in [1..Len(alphabet) -> Range(alphabet)] :
      \A i, j \in 1..Len(alphabet) : p[i] = p[j] => i = j }

\* Swap with only half of the exchange: new_key_list[a] = new_key_list[b].
Swap_Overwrite(key, a, b) ==
  [ i \in DOMAIN key |-> IF i = a THEN key[b] ELSE key[i] ]

\* new_key_list[a], new_key_list[b] = new_key_list[b], new_key_list[a]
Swap(key, a, b) ==
  [ i \in DOMAIN key |->
      IF i = a THEN key[b] ELSE IF i = b THEN key[a] ELSE key[i] ]

\* HillUpdate without its two comparisons: every candidate becomes the
\* current and the best key.
HillUpdate_TrackLast(c_key, c_score, b_key, b_score, n_key, n_score) ==
  [ current_key |-> n_key, current_score |-> n_score,
    best_key |-> n_key, best_score |-> n_score ]

\* HillUpdate accepting a candidate of equal score (>= for >).
HillUpdate_AcceptEqual(c_key, c_score, b_key, b_score, n_key, n_score) ==
  IF n_score >= c_score
    THEN [ current_key |-> n_key, current_score |-> n_score,
           best_key |-> IF n_score > b_score THEN n_key ELSE b_key,
           best_score |-> IF n_score > b_score THEN n_score ELSE b_score ]
    ELSE [ current_key |-> c_key, current_score |-> c_score,
           best_key |-> b_key, best_score |-> b_score ]

\* HillUpdate that forgets to record a new best.
HillUpdate_KeepFirstBest(c_key, c_score, b_key, b_score, n_key, n_score) ==
  IF n_score > c_score
    THEN [ current_key |-> n_key, current_score |-> n_score,
           best_key |-> b_key, best_score |-> b_score ]
    ELSE [ current_key |-> c_key, current_score |-> c_score,
           best_key |-> b_key, best_score |-> b_score ]

\* The acceptance block of one iteration: the new values of
\* current_key, current_score, best_key and best_score.
HillUpdate(c_key, c_score, b_key, b_score, n_key, n_score) ==
  IF n_score > c_score
    THEN [ current_key |-> n_key, current_score |-> n_score,
           best_key |-> IF n_score > b_score THEN n_key ELSE b_key,
           best_score |-> IF n_score > b_score THEN n_score ELSE b_score ]
    ELSE [ current_key |-> c_key, current_score |-> c_score,
           best_key |-> b_key, best_score |-> b_score ]

\* KeepsRun with >= for >: a later run of equal score replaces the best.
KeepsRun_OrEqual(s, overall) == s >= overall

\* if score > best_overall_score
KeepsRun(s, overall) == s > overall

\* The ciphertexts solve_substitution and hill_climb are called with.
Ciphertexts ==
  { << "H","a","t"," ","h","a","t","h" >>,
    << "h","a","!","!" >>,
    << "a"," ","t"," ","h" >> }

Max(a, b) == IF a >= b THEN a ELSE b

\* ------------------------------------------------ hill_climb and restarts
\* The solver's variables at position `at` with no run started: "idle"
\* (no call in progress) or "restart_loop" (solve_substitution entered, the
\* assignments before its loop done).
SolverIs(at, text, r, n, overall) ==
  /\ pc = at
  /\ ciphertext = text /\ restarts = r /\ iterations = n
  /\ run = 0 /\ iter = 0
  /\ best_key = NoKey /\ current_key = NoKey /\ new_key = NoKey
  /\ best_score = 0 /\ current_score = 0 /\ new_score = 0
  /\ decryption = None /\ mapping = None /\ score = 0
  /\ best_overall_score = overall
  /\ best_overall_decryption = None
  /\ best_overall_mapping = None
  /\ initial_key = NoKey /\ initial_score = 0 /\ accepted = 0
  /\ max_seen = 0
  /\ first_with_score = << >>

\* The same, of the next state.
SolverBecomes(at, text, r, n, overall) ==
  /\ pc' = at
  /\ ciphertext' = text /\ restarts' = r /\ iterations' = n
  /\ run' = 0 /\ iter' = 0
  /\ best_key' = NoKey /\ current_key' = NoKey /\ new_key' = NoKey
  /\ best_score' = 0 /\ current_score' = 0 /\ new_score' = 0
  /\ decryption' = None /\ mapping' = None /\ score' = 0
  /\ best_overall_score' = overall
  /\ best_overall_decryption' = None
  /\ best_overall_mapping' = None
  /\ initial_key' = NoKey /\ initial_score' = 0 /\ accepted' = 0
  /\ max_seen' = 0
  /\ first_with_score' = << >>

SolverIdle == SolverIs("idle", None, 0, 0, 0)
SolverEntered(text, r, n) == SolverIs("restart_loop", text, r, n, NegInf)

\* hill_climb is called by the restart loop: its code before the loop.
StartRun ==
  /\ pc = "restart_loop"
  /\ run < restarts
  /\ \E key \in Perms :
       LET s == score_of(decrypt(ciphertext, Mapping(key)))
       IN /\ best_key' = key
          /\ best_score' = s
          /\ current_key' = key
          /\ current_score' = s
          /\ initial_key' = key
          /\ initial_score' = s
          /\ max_seen' = s
  /\ new_key' = NoKey
  /\ new_score' = 0
  /\ accepted' = 0
  /\ iter' = 0
  /\ pc' = "hill_loop"
  \* decryption, mapping, score of the pass before are dead: the call's
  \* return rebinds them.
  /\ decryption' = None /\ mapping' = None /\ score' = 0
  /\ UNCHANGED << argVars, run, best_overall_decryption,
                  best_overall_mapping, best_overall_score,
                  first_with_score, mainVars >>
  /\ UNCHANGED fnVars

\* One pass of the loop of hill_climb.
HillIter ==
  /\ pc = "hill_loop"
  /\ iter < iterations
  /\ \E a, b \in 1..Len(alphabet) :
       /\ a # b
       /\ LET n_key == Swap(current_key, a, b)
              n_score == score_of(decrypt(ciphertext, Mapping(n_key)))
              u == HillUpdate(current_key, current_score, best_key,
                              best_score, n_key, n_score)
          IN /\ new_key' = n_key
             /\ new_score' = n_score
             /\ current_key' = u.current_key
             /\ current_score' = u.current_score
             /\ best_key' = u.best_key
             /\ best_score' = u.best_score
             /\ max_seen' = Max(max_seen, n_score)
             /\ accepted' = IF u.current_key = current_key
                              THEN accepted ELSE accepted + 1
  /\ iter' = iter + 1
  /\ UNCHANGED << argVars, pc, run, solveVars, initial_key, initial_score,
                  first_with_score, mainVars >>
  /\ UNCHANGED fnVars

\* hill_climb returns and the restart loop keeps or drops its result.
HillReturn ==
  /\ pc = "hill_loop"
  /\ iter = iterations
  /\ LET final_mapping == Mapping(best_key)
         d == decrypt(ciphertext, final_mapping)
         keep == KeepsRun(best_score, best_overall_score)
     IN /\ decryption' = d
        /\ mapping' = final_mapping
        /\ score' = best_score
        /\ best_overall_score' = IF keep THEN best_score
                                 ELSE best_overall_score
        /\ best_overall_decryption' = IF keep THEN d
                                      ELSE best_overall_decryption
        /\ best_overall_mapping' = IF keep THEN final_mapping
                                   ELSE best_overall_mapping
        /\ first_with_score' =
             IF best_score \in DOMAIN first_with_score
               THEN first_with_score
               ELSE first_with_score @@
                    (best_score :> [ decryption |-> d,
                                     mapping |-> final_mapping,
                                     score |-> best_score ])
  /\ best_key' = NoKey /\ current_key' = NoKey /\ new_key' = NoKey
  /\ best_score' = 0 /\ current_score' = 0 /\ new_score' = 0
  /\ run' = run + 1
  /\ pc' = "restart_loop"
  /\ UNCHANGED << argVars, iter, initial_key, initial_score, accepted,
                  max_seen, mainVars >>
  /\ UNCHANGED fnVars

\* solve_substitution returns the best triple.
SolveReturn ==
  /\ pc = "restart_loop"
  /\ run = restarts
  /\ pc' = "solved"
  /\ UNCHANGED << argVars, run, iter, hillVars, solveVars, histVars,
                  mainVars >>
  /\ UNCHANGED fnVars

\* ------------------------------------------------------------------- main
\* The bytes of the input files.
InputFiles ==
  { << "H","a","t"," ","h","\n" >>,
    << "a","h","!" >> }

Characters ==
  LowerAlphabet \o FullAlphabet \o
  << " ", "\n", ".", "!", DotlessI, LongS, SharpS >>

CharCode ==
  [ c \in Range(Characters) |-> CHOOSE i \in DOMAIN Characters : Characters[i] = c ]

\* compute_file_hash: the SHA-256 hex digest, a fixed-width value that is
\* taken to be free of collisions; here a polynomial hash of the bytes,
\* which no two inputs of the model share.
RECURSIVE compute_file_hash(_)
compute_file_hash(buf) ==
  IF buf = << >> THEN 0
  ELSE (compute_file_hash(SubSeq(buf, 1, Len(buf) - 1)) * 61
        + CharCode[buf[Len(buf)]]) % 1000003

IsSpace(c) == c \in { " ", "\n" }

\* str.strip()
RECURSIVE strip(_)
strip(s) ==
  IF s = << >> THEN s
  ELSE IF IsSpace(Head(s)) THEN strip(Tail(s))
  ELSE IF IsSpace(s[Len(s)])
    THEN strip(SubSeq(s, 1, Len(s) - 1))
  ELSE s

\* decryption_cache.json: absent, not JSON, or the JSON text of a dict.
NoFile == [ kind |-> "absent" ]
NotJson == [ kind |-> "garbage" ]
\* json.dump(cache, f, indent=4)
json_dump(dict) == [ kind |-> "json", text |-> dict ]
\* json.load(f), of a file that parses
json_load(file) == file.text

\* CacheStore that leaves the new entry out.
CacheStore_Dropped(dict, h, entry) == dict

\* cache[file_hash] = {...}
CacheStore(dict, h, entry) == (h :> entry) @@ dict

\* An entry written by an earlier session, and one that lost its text.
StoredEntry ==
  [ decrypted_text |-> << "t","a","!" >>,
    mapping |-> Mapping(alphabet),
    score |-> 0 ]
BrokenEntry == [ mapping |-> Mapping(alphabet), score |-> 0 ]

File1 == << "H","a","t"," ","h","\n" >>
File2 == << "a","h","!" >>

\* The directories main is started in.
Directories ==
  { [ files |-> { File1 }, cache_file |-> NoFile ],
    [ files |-> { File1 }, cache_file |-> NotJson ],
    [ files |-> { File1 }, cache_file |-> json_dump(<< >>) ],
    [ files |-> { File1 },
      cache_file |-> json_dump(compute_file_hash(File1) :> BrokenEntry) ],
    [ files |-> { File1, File2 },
      cache_file |-> json_dump(compute_file_hash(File2) :> StoredEntry) ],
    [ files |-> { File1, File2 },
      cache_file |-> json_dump(compute_file_hash(File2) :> BrokenEntry) ] }

\* No process of main is running.
MainIdle ==
  /\ main_pc = "idle"
  /\ input_file = None /\ file_hash = 0 /\ cache = << >>
  /\ decrypted_text = None /\ hit = FALSE

\* The process ends with an uncaught exception.
Crash(f, error) ==
  /\ last' = [ request |-> requests + 1, input |-> f, status |-> "crashed",
               error |-> error, hit |-> FALSE, solved |-> FALSE,
               output |-> None ]
  /\ UNCHANGED << solverVars, files, cache_file, main_pc, input_file,
                  file_hash, cache, decrypted_text, hit, first_result >>

\* main up to the cache lookup: hash the input, load the cache, and either
\* take the cached text or call solve_substitution.
MainStart ==
  /\ main_pc = "idle"
  /\ requests < MaxRequests
  /\ requests' = requests + 1
  /\ \E f \in InputFiles :
       IF f \notin files THEN Crash(f, "FileNotFoundError")
       ELSE IF cache_file = NotJson THEN Crash(f, "JSONDecodeError")
       ELSE
         LET h == compute_file_hash(f)
             loaded == IF cache_file = NoFile THEN << >>
                       ELSE json_load(cache_file)
         IN IF h \in DOMAIN loaded
              THEN IF "decrypted_text" \notin DOMAIN loaded[h]
                     THEN Crash(f, "KeyError")
                     ELSE /\ input_file' = f
                          /\ file_hash' = h
                          /\ cache' = loaded
                          /\ decrypted_text' = loaded[h].decrypted_text
                          /\ hit' = TRUE
                          /\ main_pc' = "write_output"
                          /\ UNCHANGED << solverVars, files, cache_file,
                                          last, first_result >>
              ELSE /\ input_file' = f
                   /\ file_hash' = h
                   /\ cache' = loaded
                   /\ hit' = FALSE
                   /\ main_pc' = "solving"
                   /\ SolverBecomes("restart_loop", strip(f), MainRestarts,
                                    MainIterations, NegInf)
                   /\ UNCHANGED << files, cache_file, decrypted_text, last,
                                   first_result >>
  /\ UNCHANGED fnVars

\* main after solve_substitution: the entry is stored and the cache saved.
SaveCache ==
  /\ main_pc = "solving"
  /\ pc = "solved"
  /\ decrypted_text' = best_overall_decryption
  /\ LET entry == [ decrypted_text |-> best_overall_decryption,
                    mapping |-> best_overall_mapping,
                    score |-> best_overall_score ]
     IN /\ cache' = CacheStore(cache, file_hash, entry)
        /\ cache_file' = json_dump(cache')
  /\ main_pc' = "write_output"
  /\ UNCHANGED << solverVars, files, input_file, file_hash, hit, requests,
                  last, first_result >>
  /\ UNCHANGED fnVars

\* The decrypted text is written to the output file and the process ends.
WriteOutput ==
  /\ main_pc = "write_output"
  /\ last' = [ request |-> requests, input |-> input_file, status |-> "ok",
               error |-> "", hit |-> hit, solved |-> pc = "solved",
               output |-> decrypted_text ]
  /\ first_result' =
       IF hit \/ input_file \in DOMAIN first_result THEN first_result
       ELSE first_result @@
            (input_file :> [ text |-> decrypted_text, request |-> requests ])
  /\ main_pc' = "idle"
  /\ input_file' = None /\ file_hash' = 0 /\ cache' = << >>
  /\ decrypted_text' = None /\ hit' = FALSE
  /\ SolverBecomes("idle", None, 0, 0, 0)
  /\ UNCHANGED << files, cache_file, requests >>
  /\ UNCHANGED fnVars

\* -------------------------------------------- decrypt and score by themselves
\* Neither function is being applied.
FnIdle ==
  /\ fn_pc = "idle"
  /\ arg_text = None /\ other_text = None /\ arg_mapping = << >>
  /\ enc = None /\ dec = None
  /\ text_score = 0 /\ text_windows = 0
  /\ other_score = 0 /\ other_windows = 0

\* All texts of at most n characters drawn from chars.
TextsOver(chars, n) == UNION { [1..k -> chars] : k \in 0..n }

\* The letters the key mappings of the decrypt runs are over.
DecryptPool == << "I", "S", "A", "T" >>
DecryptLetters == { DecryptPool[i] : i \in 1..DecryptAlphaLen }

\* The bijections of those letters.
KeyMappings ==
  { m \in [DecryptLetters -> DecryptLetters] :
      \A x, y \in DecryptLetters : m[x] = m[y] => x = y }

\* The characters of the texts decrypt is applied to.
DecryptChars ==
  DecryptLetters \cup { lower(c) : c \in DecryptLetters }
    \cup { " ", ".", DotlessI, LongS, SharpS }

\* The key that undoes key mapping m.
InverseMapping(m) ==
  [ p \in Range(m) |-> CHOOSE c \in DOMAIN m : m[c] = p ]

\* decrypt(text, key_mapping)
ApplyKey ==
  /\ fn_pc = "decrypt"
  /\ enc' = decrypt(arg_text, arg_mapping)
  /\ fn_pc' = "applied"
  /\ UNCHANGED << solverVars, mainVars, arg_text, other_text, arg_mapping, dec,
                  text_score, text_windows, other_score, other_windows >>

\* decrypt(enc, inverse of key_mapping)
ApplyInverse ==
  /\ fn_pc = "applied"
  /\ dec' = decrypt(enc, InverseMapping(arg_mapping))
  /\ fn_pc' = "inverted"
  /\ UNCHANGED << solverVars, mainVars, arg_text, other_text, arg_mapping, enc,
                  text_score, text_windows, other_score, other_windows >>

\* The characters of the texts score is applied to.
ScoreChars == { "t", "h", "A", " ", SharpS }

\* The other case of a letter.
FlipCase(c) == IF isupper(c) THEN lower(c) ELSE Head(upper(c))

\* The texts that differ from t by one inserted space, full stop or line
\* break, or by the case of one letter.
Variants(t) ==
  { SubSeq(t, 1, p) \o << c >> \o SubSeq(t, p + 1, Len(t)) :
      p \in 0..Len(t), c \in { " ", ".", "\n" } }
  \cup { [ t EXCEPT ![p] = FlipCase(t[p]) ] : p \in 1..Len(t) }

\* scorer.score(text)
ScoreFirst ==
  /\ fn_pc = "score"
  /\ text_score' = score_of(arg_text)
  /\ text_windows' = Len(Windows(arg_text))
  /\ fn_pc' = "scored"
  /\ UNCHANGED << solverVars, mainVars, arg_text, other_text, arg_mapping, enc,
                  dec, other_score, other_windows >>

\* scorer.score(other_text), of a text close to the first
ScoreOther ==
  /\ fn_pc = "scored"
  /\ \E t \in Variants(arg_text) :
       /\ other_text' = t
       /\ other_score' = score_of(t)
       /\ other_windows' = Len(Windows(t))
  /\ fn_pc' = "compared"
  /\ UNCHANGED << solverVars, mainVars, arg_text, arg_mapping, enc, dec,
                  text_score, text_windows >>

\* ---------------------------------------------------------- specifications
\* solve_substitution(ciphertext, scorer, restarts, iterations) is called.
Init ==
  /\ \E ct \in Ciphertexts, r \in 0..MaxRestarts,
        n \in 0..MaxSolveIterations : SolverEntered(ct, r, n)
  /\ files = {} /\ cache_file = NoFile
  /\ MainIdle
  /\ requests = 0
  /\ last = [ request |-> 0 ]
  /\ first_result = << >>
  /\ FnIdle

Next == StartRun \/ HillIter \/ HillReturn \/ SolveReturn

Spec == Init /\ [][Next]_vars

\* hill_climb(ciphertext, scorer, max_iter) is run once.
InitHill ==
  /\ \E ct \in Ciphertexts, n \in 0..MaxIterations :
        SolverEntered(ct, 1, n)
  /\ files = {} /\ cache_file = NoFile
  /\ MainIdle
  /\ requests = 0
  /\ last = [ request |-> 0 ]
  /\ first_result = << >>
  /\ FnIdle

SpecHill == InitHill /\ [][Next]_vars

\* The program is started in one of the directories, again and again.
InitMain ==
  /\ \E d \in Directories : files = d.files /\ cache_file = d.cache_file
  /\ MainIdle
  /\ SolverIdle
  /\ requests = 0
  /\ last = [ request |-> 0 ]
  /\ first_result = << >>
  /\ FnIdle

NextMain ==
  \/ MainStart \/ SaveCache \/ WriteOutput
  \/ StartRun \/ HillIter \/ HillReturn \/ SolveReturn

SpecMain == InitMain /\ [][NextMain]_vars

\* decrypt is applied to a text and undone with the inverse key.
InitDecrypt ==
  /\ SolverIdle
  /\ files = {} /\ cache_file = NoFile
  /\ MainIdle
  /\ requests = 0
  /\ last = [ request |-> 0 ]
  /\ first_result = << >>
  /\ fn_pc = "decrypt"
  /\ arg_text \in TextsOver(DecryptChars, MaxDecryptLen)
  /\ arg_mapping \in KeyMappings
  /\ other_text = None /\ enc = None /\ dec = None
  /\ text_score = 0 /\ text_windows = 0
  /\ other_score = 0 /\ other_windows = 0

NextDecrypt == ApplyKey \/ ApplyInverse

SpecDecrypt == InitDecrypt /\ [][NextDecrypt]_vars

\* score is applied to a text and to a text close to it.
InitScore ==
  /\ SolverIdle
  /\ files = {} /\ cache_file = NoFile
  /\ MainIdle
  /\ requests = 0
  /\ last = [ request |-> 0 ]
  /\ first_result = << >>
  /\ fn_pc = "score"
  /\ arg_text \in TextsOver(ScoreChars, MaxScoreLen)
  /\ arg_mapping = << >>
  /\ other_text = None /\ enc = None /\ dec = None
  /\ text_score = 0 /\ text_windows = 0
  /\ other_score = 0 /\ other_windows = 0

NextScore == ScoreFirst \/ ScoreOther

SpecScore == InitScore /\ [][NextScore]_vars

\* ----------------------------------------------------------------- claims
\* What the claims speak of.
IsPermutation(key) ==
  Len(key) = Len(alphabet) /\ Range(key) = Range(alphabet)

IsBijection(m) ==
  DOMAIN m = Range(alphabet) /\ { m[c] : c \in DOMAIN m } = Range(alphabet)

\* new is old with the entries at two distinct positions exchanged.
TwoSwapped(old, new) ==
  /\ DOMAIN new = DOMAIN old
  /\ \E a, b \in DOMAIN old :
       /\ a # b
       /\ new[a] = old[b] /\ new[b] = old[a]
       /\ \A i \in DOMAIN old \ { a, b } : new[i] = old[i]

\* hill_climb has returned to the restart loop.
Returned == pc \in { "restart_loop", "solved" } /\ run > 0

IsAlpha(c) ==
  c \in Range(LowerAlphabet) \cup Range(FullAlphabet)
        \cup { DotlessI, LongS, SharpS }

\* The number of alphabetic characters of a text.
AlphaCount(t) == Len(SelectSeq(t, IsAlpha))

\* The letters A-Z of the upper-cased text.
LettersUpper(t) ==
  SelectSeq(upper_str(t), LAMBDA c : c \in Range(FullAlphabet))

\* The upper-cased text without its space characters (U+0020).
SpacelessUpper(t) == SelectSeq(upper_str(t), LAMBDA c : c # " ")

WindowCount(n) == IF n > 3 THEN n - 3 ELSE 0

\* C1: within one hill_climb run best_score never decreases from one
\* iteration to the next, and it is never below the score of the initial
\* random key.
C1_BestScoreNeverDecreases ==
  [][ /\ pc' = "hill_loop" => best_score' >= initial_score'
      /\ pc = "hill_loop" /\ pc' = "hill_loop" => best_score' >= best_score
    ]_vars

\* A run in which the best score has risen above the initial score.
C1_Witness ==
  pc = "hill_loop" /\ iter >= 1 /\ best_score > initial_score

\* C8: in hill_climb the current key, the candidate key and the best key
\* are permutations of the alphabet, and the mappings built from them, the
\* returned mapping included, are bijections of the alphabet.
C8_KeysArePermutations ==
  /\ pc = "hill_loop" =>
       /\ IsPermutation(current_key) /\ IsBijection(Mapping(current_key))
       /\ IsPermutation(best_key) /\ IsBijection(Mapping(best_key))
       /\ iter > 0 =>
            IsPermutation(new_key) /\ IsBijection(Mapping(new_key))
  /\ Returned => IsBijection(mapping)

\* After two iterations, one of them accepted, with a candidate that is
\* not the current key.
C8_Witness ==
  pc = "hill_loop" /\ iter >= 2 /\ accepted >= 1 /\ new_key # current_key

\* C9: each iteration derives the candidate from the current key by
\* exchanging two distinct positions; the candidate replaces the current
\* key only when its score is strictly greater, and otherwise the current
\* and the best key and score stay as they are.
C9_StrictAcceptance ==
  [][ pc = "hill_loop" /\ iter' = iter + 1 =>
        /\ TwoSwapped(current_key, new_key')
        /\ new_score' = score_of(decrypt(ciphertext, Mapping(new_key')))
        /\ current_key' # current_key =>
             /\ new_score' > current_score
             /\ current_key' = new_key' /\ current_score' = new_score'
        /\ new_score' <= current_score =>
             UNCHANGED << current_key, current_score, best_key, best_score >>
    ]_vars

\* A candidate of equal score that was not accepted.
C9_Witness ==
  /\ pc = "hill_loop" /\ iter >= 1
  /\ new_score = current_score /\ new_key # current_key

\* C10: hill_climb never runs more than max_iter iterations and returns
\* after exactly max_iter of them; the returned score is at least the score
\* of the initial key and of every candidate evaluated, it is the score of
\* the returned text, the returned text is the ciphertext decrypted with
\* the returned mapping, and when no candidate was accepted the initial
\* key is returned.
C10_ReturnsBestEver ==
  /\ pc = "hill_loop" => iter <= iterations
  /\ Returned =>
       /\ iter = iterations
       /\ score >= initial_score
       /\ score >= max_seen
       /\ score = score_of(decryption)
       /\ decryption = decrypt(ciphertext, mapping)
       /\ accepted = 0 => mapping = Mapping(initial_key)

\* A run returned after an accepted candidate raised the score.
C10_Witness ==
  Returned /\ iterations >= 2 /\ accepted >= 1 /\ score > initial_score

\* C2: with restarts >= 1 solve_substitution returns a score at least that
\* of each of its runs, and the triple of the first run that reached that
\* score.
C2_FirstMaximumWins ==
  pc = "solved" /\ restarts >= 1 =>
    /\ \A s \in DOMAIN first_with_score : best_overall_score >= s
    /\ best_overall_score \in DOMAIN first_with_score
    /\ [ decryption |-> best_overall_decryption,
         mapping |-> best_overall_mapping,
         score |-> best_overall_score ]
         = first_with_score[best_overall_score]

\* The last of two or more runs tied with the best and had another key.
C2_Witness ==
  /\ pc = "solved" /\ run >= 2
  /\ score = best_overall_score /\ mapping # best_overall_mapping

C3_State ==
  /\ \A f \in DOMAIN first_result :
       /\ cache_file.kind = "json"
       /\ compute_file_hash(f) \in DOMAIN cache_file.text
       /\ "decrypted_text" \in DOMAIN cache_file.text[compute_file_hash(f)]
       /\ cache_file.text[compute_file_hash(f)].decrypted_text
            = first_result[f].text
  /\ main_pc = "write_output" /\ ~hit =>
       /\ cache_file.kind = "json"
       /\ file_hash \in DOMAIN cache_file.text
       /\ cache_file.text[file_hash].decrypted_text = decrypted_text
  /\ ( /\ last.request > 0
       /\ last.status = "ok"
       /\ last.input \in DOMAIN first_result
       /\ last.request > first_result[last.input].request )
     => /\ last.hit /\ ~last.solved
        /\ last.output = first_result[last.input].text

C3_CachedResultIsReused ==
  /\ []C3_State
  /\ [][ cache_file.kind = "json" =>
           /\ cache_file'.kind = "json"
           /\ \A h \in DOMAIN cache_file.text :
                /\ h \in DOMAIN cache_file'.text
                /\ cache_file'.text[h] = cache_file.text[h]
       ]_vars

\* A request served from the entry an earlier request of this directory
\* computed.
C3_Witness ==
  /\ last.request > 0
  /\ last.status = "ok" /\ last.hit
  /\ last.input \in DOMAIN first_result
  /\ last.request > first_result[last.input].request

\* C6 as claimed: a request that finds the cache file unparseable, or its
\* entry without the decrypted text, does not end with the exception of
\* reading it (JSONDecodeError from json.load, KeyError from
\* result["decrypted_text"]).
C6_CorruptCacheIsAMiss ==
  last.request > 0 /\ last.status = "crashed" =>
    last.error \notin { "JSONDecodeError", "KeyError" }

\* C5 as claimed: applying a key and then its inverse gives back the text.
C5_RoundTrip ==
  fn_pc = "inverted" => dec = arg_text

====
